---- MODULE Spec2Model ----
(***************************************************************************)
(* Markov-chain text generator (mark.go): the prefix -> weighted-suffix    *)
(* table built by Chain.Build, its text serialisation (WriteFreTable /     *)
(* ReadFreTable), the weighted random walk of Chain.Generate, and the      *)
(* argument handling of main.                                              *)
(*                                                                         *)
(* A Go string is modelled as the sequence of its characters (one-char     *)
(* TLA+ strings), so that strings.Join, strings.Split, the byte slice      *)
(* i[count:], fmt's decimal printing and strconv.Atoi are computed, not    *)
(* assumed.  A file is the sequence of its lines.                          *)
(***************************************************************************)
EXTENDS Integers, Sequences, FiniteSets, TLC

\* ------------------------------------------------------------------ bounds
MaxPrefixLen == 2
MaxFiles == 2
MaxTokens == 3
MaxWords == 2
MaxRuns == 2
MaxFreq == 3
MaxSuffixes == 2
MaxFields == 5

\* The cumulative-sum buffer of Generate: make([]int, 1000).
SumLen == 1000

\* ------------------------------------------------------------- characters
SP == " "
QUOTE == "\""
Digits == <<"0", "1", "2", "3", "4", "5", "6", "7", "8", "9">>

\* The zero value of a Go string, which make(Prefix, n) fills the prefix with.
EmptyString == <<>>
\* The two-character string "\"\"" that WriteFreTable prints for an empty
\* prefix word and that Generate fills its initial prefix with.
Marker == <<QUOTE, QUOTE>>

\* ---------------------------------------------------------------- strings
RECURSIVE Join(_)
\* strings.Join(p, " ")
Join(ws) ==
  IF ws = <<>> THEN <<>>
  ELSE IF Len(ws) = 1 THEN ws[1]
  ELSE ws[1] \o <<SP>> \o Join(Tail(ws))

\* Prefix.String
String(p) == Join(p)

\* Prefix.Shift: copy(p, p[1:]); p[len(p)-1] = word   (len(p) >= 1)
Shift(p, word) == Tail(p) \o <<word>>

RECURSIVE Split(_)
\* strings.Split(str, " "): the fields between single spaces; one empty
\* field for the empty string.
Split(str) ==
  IF \A k \in 1..Len(str) : str[k] # SP THEN <<str>>
  ELSE LET k == CHOOSE k \in 1..Len(str) :
                  str[k] = SP /\ \A h \in 1..(k-1) : str[h] # SP
       IN <<SubSeq(str, 1, k-1)>> \o Split(SubSeq(str, k+1, Len(str)))

RECURSIVE Itoa(_)
\* fmt.Fprint of an int: its decimal digits.
Itoa(v) ==
  IF v < 0 THEN <<"-">> \o Itoa(0 - v)
  ELSE IF v < 10 THEN <<Digits[v + 1]>>
  ELSE Itoa(v \div 10) \o <<Digits[(v % 10) + 1]>>

IsDigit(ch) == \E d \in 1..10 : Digits[d] = ch
DigitVal(ch) == (CHOOSE d \in 1..10 : Digits[d] = ch) - 1

RECURSIVE DigitsVal(_)
DigitsVal(ds) ==
  IF ds = <<>> THEN 0
  ELSE 10 * DigitsVal(SubSeq(ds, 1, Len(ds) - 1)) + DigitVal(ds[Len(ds)])

\* strconv.Atoi: [ok, val]; an optional sign and at least one digit, or an
\* error with value 0.
Atoi(str) ==
  LET signed == Len(str) >= 1 /\ str[1] \in {"-", "+"}
      ds == IF signed THEN Tail(str) ELSE str
      okay == Len(ds) >= 1 /\ \A k \in 1..Len(ds) : IsDigit(ds[k])
  IN IF ~okay THEN [ok |-> FALSE, val |-> 0]
     ELSE [ok |-> TRUE,
           val |-> IF signed /\ str[1] = "-" THEN 0 - DigitsVal(ds)
                   ELSE DigitsVal(ds)]

\* ------------------------------------------------------------------ chain
\* make(map[string][]Suffix)
EmptyMap == [k \in {} |-> <<>>]

\* NewChain
NewChain(prefixLen) == [chain |-> EmptyMap, prefixLen |-> prefixLen]

\* c.chain[key]: the nil slice when the key is absent.
Lookup(chain, key) == IF key \in DOMAIN chain THEN chain[key] ELSE <<>>

\* chain[key] = v
Store(chain, key, v) ==
  [k \in DOMAIN chain \cup {key} |-> IF k = key THEN v ELSE chain[k]]

\* make(Prefix, n): n empty strings.
MakePrefix(n) == [k \in 1..n |-> EmptyString]

\* Record without the search for the word: every word is appended with
\* frequency 1.
RecordNoMerge(chain, key, get) ==
  Store(chain, key, Append(Lookup(chain, key), [word |-> get, frequency |-> 1]))

\* The body of Build's inner loop for one word: bump the frequency of every
\* entry of the key holding the word, or append a new entry with frequency 1.
Record(chain, key, get) ==
  LET suf == Lookup(chain, key)
      find == \E k \in 1..Len(suf) : suf[k].word = get
  IN IF find
     THEN Store(chain, key,
                [k \in 1..Len(suf) |->
                   IF suf[k].word = get
                   THEN [word |-> suf[k].word, frequency |-> suf[k].frequency + 1]
                   ELSE suf[k]])
     ELSE Store(chain, key, Append(suf, [word |-> get, frequency |-> 1]))

RECURSIVE BuildWords(_, _, _)
\* for j, get := range s[i] { ...; p.Shift(s[i][j]) }
BuildWords(chain, p, toks) ==
  IF toks = <<>> THEN chain
  ELSE BuildWords(Record(chain, String(p), Head(toks)),
                  Shift(p, Head(toks)), Tail(toks))

\* One file of Build: a fresh prefix, then its words in order.
BuildFile(chain, prefixLen, toks) ==
  BuildWords(chain, MakePrefix(prefixLen), toks)

RECURSIVE Flatten(_)
Flatten(s) == IF s = <<>> THEN <<>> ELSE Head(s) \o Flatten(Tail(s))

\* BuildFiles with one prefix window sliding over all the files.
BuildFilesOneStream(chain, prefixLen, s) ==
  BuildWords(chain, MakePrefix(prefixLen), Flatten(s))

RECURSIVE BuildFiles(_, _, _)
BuildFiles(chain, prefixLen, s) ==
  IF s = <<>> THEN chain
  ELSE BuildFiles(BuildFile(chain, prefixLen, Head(s)), prefixLen, Tail(s))

\* Chain.Build over the word slices s of the input files.
Build(ch, s) ==
  [chain |-> BuildFiles(ch.chain, ch.prefixLen, s), prefixLen |-> ch.prefixLen]

\* ---------------------------------------------------------- WriteFreTable
RECURSIVE WritePrefix(_, _, _, _, _)
\* The loop over ss = strings.Split(i, " "): an empty field prints the marker
\* and is counted; the first non-empty field prints i[count:], the rest of
\* the key, once.
WritePrefix(ss, j, i, count, flag) ==
  IF j > Len(ss) THEN <<>>
  ELSE IF Len(ss[j]) = 0
  THEN Marker \o <<SP>> \o WritePrefix(ss, j + 1, i, count + 1, flag)
  ELSE IF ~flag
  THEN LET rest == SubSeq(i, count + 1, Len(i))
       IN rest \o <<SP>> \o WritePrefix(ss, j + 1, rest, count, TRUE)
  ELSE WritePrefix(ss, j + 1, i, count, flag)

\* WriteSuffixes that stops after the first suffix.
WriteSuffixesFirst(suffix) ==
  IF suffix = <<>> THEN <<>>
  ELSE Head(suffix).word \o <<SP>> \o Itoa(Head(suffix).frequency) \o <<SP>>

RECURSIVE WriteSuffixes(_)
\* fmt.Fprint(outFile, val.word, " ", val.frequency, " ") for each suffix
WriteSuffixes(suffix) ==
  IF suffix = <<>> THEN <<>>
  ELSE Head(suffix).word \o <<SP>> \o Itoa(Head(suffix).frequency) \o <<SP>>
       \o WriteSuffixes(Tail(suffix))

\* The line written for one prefix of the map.
WriteLine(key, suffix) ==
  WritePrefix(Split(key), 1, key, 0, FALSE) \o WriteSuffixes(suffix)

RECURSIVE Orders(_)
\* The orders in which a range over a Go map may visit a set of keys.
Orders(keys) ==
  IF keys = {} THEN {<<>>}
  ELSE UNION {{<<k>> \o o : o \in Orders(keys \ {k})} : k \in keys}

\* The file WriteFreTable writes when the map is ranged over in this order:
\* the prefix length, then one line per prefix.
WriteFile(ch, order) ==
  <<Itoa(ch.prefixLen)>> \o
  [k \in 1..Len(order) |-> WriteLine(order[k], ch.chain[order[k]])]

\* ----------------------------------------------------------- ReadFreTable
RECURSIVE ReadKey(_, _, _)
\* for i := 0; i < prefixLen; i++ { key += words[i]; key += " " }
\* (i counts from 1 here; words has at least prefixLen fields)
ReadKey(words, i, prefixLen) ==
  IF i > prefixLen THEN <<>>
  ELSE words[i] \o <<SP>> \o ReadKey(words, i + 1, prefixLen)

RECURSIVE ReadSuffixes(_, _, _, _)
\* for i := prefixLen; i < len(words)-1; i += 2 { append (words[i], Atoi(words[i+1])) }
\* (i is the Go index; the Go words[i] is words[i + 1] here)
ReadSuffixes(chain, key, words, i) ==
  IF ~(i < Len(words) - 1) THEN chain
  ELSE ReadSuffixes(
         Store(chain, key,
               Append(Lookup(chain, key),
                      [word |-> words[i + 1], frequency |-> Atoi(words[i + 2]).val])),
         key, words, i + 2)

\* One line of the model file: [ok, chain]; ok is FALSE when the line makes
\* ReadFreTable panic (words[i] out of range, or key[0:len(key)-1] of an
\* empty key).
ReadLine(chain, prefixLen, line) ==
  LET words == Split(line)
  IN IF prefixLen > Len(words) THEN [ok |-> FALSE, chain |-> chain]
     ELSE LET key == ReadKey(words, 1, prefixLen)
          IN IF Len(key) = 0 THEN [ok |-> FALSE, chain |-> chain]
             ELSE [ok |-> TRUE,
                   chain |-> ReadSuffixes(chain, SubSeq(key, 1, Len(key) - 1),
                                          words, prefixLen)]

RECURSIVE ReadLines(_, _, _)
ReadLines(chain, prefixLen, lines) ==
  IF lines = <<>> THEN [ok |-> TRUE, chain |-> chain]
  ELSE LET r == ReadLine(chain, prefixLen, Head(lines))
       IN IF r.ok THEN ReadLines(r.chain, prefixLen, Tail(lines)) ELSE r

\* ReadFreTable of an opened file: [ok, c]; the first line gives prefixLen
\* (0 when there is none or it is no integer).
ReadFile(file) ==
  LET prefixLen == IF Len(file) >= 1 THEN Atoi(file[1]).val ELSE 0
      r == ReadLines(NewChain(prefixLen).chain, prefixLen,
                     IF Len(file) >= 1 THEN Tail(file) ELSE <<>>)
  IN [ok |-> r.ok, c |-> [chain |-> r.chain, prefixLen |-> prefixLen]]

\* --------------------------------------------------------------- Generate
\* InitialPrefix left as make(Prefix, n) made it: empty strings.
InitialPrefixEmpty(prefixLen) == [k \in 1..prefixLen |-> EmptyString]

\* p := make(Prefix, c.prefixLen); p[i] = "\"\"" for every i
InitialPrefix(prefixLen) == [k \in 1..prefixLen |-> Marker]

RECURSIVE CumRange(_, _, _, _)
\* sum[lo..hi], given base = sum[lo-1] (0 before the first entry), computed by
\* halving the range so that a list of a thousand entries needs no deep
\* recursion; every value is sum[j] = sum[j-1] + choices[j].frequency.
CumRange(choices, lo, hi, base) ==
  IF lo = hi THEN <<base + choices[lo].frequency>>
  ELSE LET mid == (lo + hi) \div 2
           left == CumRange(choices, lo, mid, base)
       IN left \o CumRange(choices, mid + 1, hi, left[Len(left)])

\* The cumulative frequencies Generate stores in sum[0..len(choices)-1].
CumSum(choices) ==
  IF choices = <<>> THEN <<>> ELSE CumRange(choices, 1, Len(choices), 0)

\* Pick with > for >=.
PickStrict(sum, random) == Cardinality({k \in DOMAIN sum : random > sum[k]})

\* for i := 0; i < len(choices); i++ { if random >= sum[i] { count++ } }
Pick(sum, random) == Cardinality({k \in DOMAIN sum : random >= sum[k]})

\* ------------------------------------------------------------------ state
VARIABLES
  driver,     \* "main": the processes started from the command line;
              \* "lib": the package's functions called directly
  args,       \* os.Args of the running process
  runs,       \* the number of processes started so far
  disk,       \* the words of each input file on disk (bufio.ScanWords)
  canCreate,  \* whether os.Create of the model file succeeds
  outFile,    \* the model file on disk: [exists, lines]
  inputFile,  \* Build's argument: names of input files (0: no such file)
  c,          \* the Chain that Build fills
  loaded,     \* the Chain that ReadFreTable returns
  on,         \* the Chain Generate was called on: "built" or "loaded"
  n,          \* Generate's argument
  p,          \* Generate's prefix
  words,      \* Generate's output so far
  i,          \* Generate's loop counter
  draws,      \* the number of rand.Intn calls of the running Generate
  choices,    \* Generate's choices: the suffixes found in its last turn
  random,     \* Generate's random: the number drawn in its last turn
  count,      \* Generate's count: the index chosen in its last turn
  io,         \* the file operations of the running process, in order
  report,     \* the message the process printed ("" for none)
  status,     \* the exit status (-1 while the process runs)
  pc          \* where the process (or the caller of the package) is

vars == <<driver, args, runs, disk, canCreate, outFile, inputFile, c, loaded,
          on, n, p, words, i, draws, choices, random, count, io, report,
          status, pc>>

\* The locals of Generate.
gen == <<on, n, p, words, i, draws, choices, random, count>>

\* ----------------------------------------------------------------- inputs
\* The words of the input texts: two ordinary words, and the word made of two
\* double quotes, which is a word like any other to bufio.ScanWords.
Words == {<<"a">>, <<"b">>, Marker}

RECURSIVE SeqsUpTo(_, _)
\* The sequences over S of length at most k.
SeqsUpTo(S, k) ==
  IF k = 0 THEN {<<>>}
  ELSE LET shorter == SeqsUpTo(S, k - 1)
       IN shorter \cup {Append(q, x) : q \in {r \in shorter : Len(r) = k - 1}, x \in S}

RECURSIVE DisksWith(_, _)
\* The lists of at most f files holding at most k words in all.
DisksWith(f, k) ==
  IF f = 0 THEN {<<>>}
  ELSE {<<>>} \cup
       UNION {{<<first>> \o rest : rest \in DisksWith(f - 1, k - Len(first))} :
                first \in SeqsUpTo(Words, k)}

\* The input texts: at most MaxFiles files holding at most MaxTokens words
\* in all.
Disks == DisksWith(MaxFiles, MaxTokens)

NoArgs == [argc |-> 0, cmd |-> "", num |-> <<>>, names |-> <<>>]
NoFile == [exists |-> FALSE, lines |-> <<>>]
NoChain == [chain |-> EmptyMap, prefixLen |-> 0]

\* The chain the running Generate reads.
Receiver == IF on = "built" THEN c ELSE loaded

\* The word slices Build reads from the files it was given.
Slices == [k \in 1..Len(inputFile) |-> disk[inputFile[k]]]

GenIdle ==
  /\ on = "" /\ n = 0 /\ p = <<>> /\ words = <<>> /\ i = 0 /\ draws = 0
  /\ choices = <<>> /\ random = 0 /\ count = 0

\* The package used directly: a Chain made by NewChain(prefixLen) for input
\* files that exist, drawn from the set D of input texts.
LibStart(D) ==
  /\ driver = "lib"
  /\ args = NoArgs
  /\ runs = 1
  /\ disk \in D
  /\ canCreate \in BOOLEAN
  /\ outFile = NoFile
  /\ inputFile = [k \in 1..Len(disk) |-> k]
  /\ \E prefixLen \in 1..MaxPrefixLen : c = NewChain(prefixLen)
  /\ loaded = NoChain
  /\ GenIdle
  /\ io = <<>>
  /\ report = ""
  /\ status = -1
  /\ pc = "build"

InitLib == LibStart(Disks)

\* The text of the package comment's example, without its punctuation:
\* I am not a number I am a free man
ExampleText ==
  << <<"I">>, <<"a", "m">>, <<"n", "o", "t">>, <<"a">>,
     <<"n", "u", "m", "b", "e", "r">>, <<"I">>, <<"a", "m">>, <<"a">>,
     <<"f", "r", "e", "e">>, <<"m", "a", "n">> >>

InitBuild == LibStart(Disks \cup {<<ExampleText>>})

\* The command lines: too few arguments, "read <prefixLen> <out> <in>...",
\* "generate <model> <wordCount>" with one argument missing or one too many,
\* and a command that is neither.  num is the number argument (os.Args[2] of
\* read, os.Args[3] of generate), names the input files of read.
Nums(max) == {<<"0">>, <<"-", "1">>, <<"x">>} \cup {Itoa(k) : k \in 1..max}

Argv(d) ==
  LET all == [k \in 1..Len(d) |-> k]
  IN {[argc |-> 1, cmd |-> "", num |-> <<>>, names |-> <<>>],
      [argc |-> 2, cmd |-> "build", num |-> <<>>, names |-> <<>>]}
     \cup {[argc |-> 3, cmd |-> "read", num |-> x, names |-> <<>>] :
             x \in Nums(MaxPrefixLen)}
     \cup {[argc |-> 4 + Len(f), cmd |-> "read", num |-> x, names |-> f] :
             x \in Nums(MaxPrefixLen), f \in {all, Append(all, 0)}}
     \cup {[argc |-> 3, cmd |-> "generate", num |-> <<>>, names |-> <<>>]}
     \cup {[argc |-> k, cmd |-> "generate", num |-> x, names |-> <<>>] :
             k \in {4, 5}, x \in Nums(MaxWords)}

\* The input texts of the command-line runs.
MainDisks ==
  {<<>>, <<<<<<"a">>, <<"b">>, <<"a">>>>>>, <<<<<<"a">>, <<"a">>>>, <<<<"b">>>>>>}

\* A process started from the command line, before main runs.
InitMain ==
  /\ driver = "main"
  /\ disk \in MainDisks
  /\ args \in Argv(disk)
  /\ runs = 1
  /\ canCreate \in BOOLEAN
  /\ outFile = NoFile
  /\ inputFile = <<>>
  /\ c = NoChain
  /\ loaded = NoChain
  /\ GenIdle
  /\ io = <<>>
  /\ report = ""
  /\ status = -1
  /\ pc = "main"

\* ---------------------------------------------------------------- actions
\* Positive without the test v <= 0.
PositiveLax(arg) == Atoi(arg).ok

\* strconv.Atoi(arg) with err != nil || v <= 0
Positive(arg) == Atoi(arg).ok /\ Atoi(arg).val > 0

\* main up to its first call of Build or ReadFreTable: os.Args[1] and
\* os.Args[3] are read before anything is checked (a short command line
\* panics), then the number is validated.
Main ==
  /\ pc = "main"
  /\ UNCHANGED <<driver, args, runs, disk, canCreate, outFile, loaded,
                 on, p, words, i, draws, choices, random, count, io>>
  /\ IF args.argc < 2 \/ (args.cmd = "read" /\ args.argc < 4)
     THEN /\ pc' = "panic" /\ status' = 2
          /\ report' = "os.Args: index out of range"
          /\ UNCHANGED <<inputFile, c, n>>
     ELSE IF args.cmd = "read"
     THEN IF ~Positive(args.num)
          THEN /\ pc' = "exit" /\ status' = 0
               /\ report' = "Sorry: number of prefix should be positive."
               /\ UNCHANGED <<inputFile, c, n>>
          ELSE /\ pc' = "build"
               /\ inputFile' = args.names
               /\ c' = NewChain(Atoi(args.num).val)
               /\ UNCHANGED <<report, status, n>>
     ELSE IF args.cmd = "generate"
     THEN IF args.argc # 4
          THEN /\ pc' = "exit" /\ status' = 0
               /\ report' = "Sorry: generate option needs 4 parameters in total."
               /\ UNCHANGED <<inputFile, c, n>>
          ELSE IF ~Positive(args.num)
          THEN /\ pc' = "exit" /\ status' = 0
               /\ report' = "Sorry: number of words should be positive."
               /\ UNCHANGED <<inputFile, c, n>>
          ELSE /\ pc' = "read"
               /\ n' = Atoi(args.num).val
               /\ UNCHANGED <<inputFile, c, report, status>>
     ELSE /\ pc' = "exit" /\ status' = 0
          /\ report' = "Sorry: choose read or generate for command option for 1st parameter."
          /\ UNCHANGED <<inputFile, c, n>>

\* The next process is started once the last one has ended.
Exec ==
  /\ driver = "main"
  /\ pc \in {"exit", "panic"}
  /\ runs < MaxRuns
  /\ runs' = runs + 1
  /\ args' \in Argv(disk)
  /\ inputFile' = <<>>
  /\ c' = NoChain
  /\ loaded' = NoChain
  /\ on' = "" /\ n' = 0 /\ p' = <<>> /\ words' = <<>> /\ i' = 0 /\ draws' = 0
  /\ choices' = <<>> /\ random' = 0 /\ count' = 0
  /\ io' = <<>>
  /\ report' = ""
  /\ status' = -1
  /\ pc' = "main"
  /\ UNCHANGED <<driver, disk, canCreate, outFile>>

\* Chain.Build: every input file is opened and scanned (the first that cannot
\* be opened ends the process with status 3), then the chain is filled.  A
\* chain made with a prefix length below 1 panics: make(Prefix, n) for n < 0
\* at the first file, p.Shift of an empty prefix at the first word.
BuildChain ==
  /\ pc = "build"
  /\ UNCHANGED <<driver, args, runs, disk, canCreate, outFile, inputFile, loaded,
                 gen>>
  /\ LET missing == {k \in 1..Len(inputFile) : inputFile[k] \notin 1..Len(disk)}
     IN IF missing # {}
        THEN LET bad == CHOOSE k \in missing : \A h \in missing : k <= h
             IN /\ io' = io \o [k \in 1..bad |-> "open input"]
                /\ report' = "Error: couldn't open the file"
                /\ status' = 3
                /\ pc' = "exit"
                /\ c' = c
        ELSE IF \/ (c.prefixLen < 0 /\ Len(inputFile) >= 1)
                \/ (c.prefixLen = 0 /\ \E k \in 1..Len(inputFile) : Slices[k] # <<>>)
        THEN /\ io' = io \o [k \in 1..Len(inputFile) |-> "open input"]
             /\ report' = "Build: slice bounds out of range"
             /\ status' = 2
             /\ pc' = "panic"
             /\ c' = c
        ELSE /\ io' = io \o [k \in 1..Len(inputFile) |-> "open input"]
             /\ c' = Build(c, Slices)
             /\ pc' = "write"
             /\ UNCHANGED <<report, status>>

\* Chain.WriteFreTable: the file is created (it is only reported when it
\* cannot be, and nothing is written), and the map is ranged over in an
\* order of Go's choosing.  main returns after it.
WriteFreTable ==
  /\ pc = "write"
  /\ UNCHANGED <<driver, args, runs, disk, canCreate, inputFile, c, loaded,
                 gen>>
  /\ io' = Append(io, "create model")
  /\ IF canCreate
     THEN /\ \E order \in Orders(DOMAIN c.chain) :
               outFile' = [exists |-> TRUE, lines |-> WriteFile(c, order)]
          /\ report' = report
     ELSE /\ outFile' = outFile
          /\ report' = "Sorry: couldn't create the file!"
  /\ IF driver = "main"
     THEN pc' = "exit" /\ status' = 0
     ELSE pc' = "read" /\ status' = status

\* ReadFreTable: status 3 when the file cannot be opened; a panic when a line
\* has fewer fields than prefixLen or prefixLen is not positive.
ReadFreTable ==
  /\ pc = "read"
  /\ UNCHANGED <<driver, args, runs, disk, canCreate, outFile, inputFile, c,
                 gen>>
  /\ io' = Append(io, "open model")
  /\ IF ~outFile.exists
     THEN /\ report' = "Sorry: couldn't open the file"
          /\ status' = 3
          /\ pc' = "exit"
          /\ loaded' = loaded
     ELSE LET r == ReadFile(outFile.lines)
          IN IF r.ok
             THEN /\ loaded' = r.c
                  /\ pc' = "call"
                  /\ UNCHANGED <<report, status>>
             ELSE /\ loaded' = loaded
                  /\ pc' = "panic"
                  /\ status' = 2
                  /\ report' = "ReadFreTable: index or slice bounds out of range"

\* The call of Chain.Generate up to its loop.  main calls it on the chain it
\* read, with the number of its command line; a caller of the package may call
\* it on a chain it built, too.
GenerateCall ==
  /\ pc \in (IF driver = "lib" THEN {"write", "call"} ELSE {"call"})
  /\ UNCHANGED <<driver, args, runs, disk, canCreate, outFile, inputFile, c,
                 loaded, io, i, words, draws, choices, random, count>>
  /\ \E k \in (IF driver = "lib" THEN 0..MaxWords ELSE {n}) : n' = k
  /\ LET recv == IF pc = "write" THEN c ELSE loaded
     IN IF recv.prefixLen < 0
        THEN /\ pc' = "panic" /\ status' = 2
             /\ report' = "Generate: makeslice: len out of range"
             /\ UNCHANGED <<on, p>>
        ELSE /\ on' = (IF pc = "write" THEN "built" ELSE "loaded")
             /\ p' = InitialPrefix(recv.prefixLen)
             /\ pc' = "loop"
             /\ UNCHANGED <<report, status>>

\* One turn of Generate's loop that finds suffixes for the prefix: the sums
\* are stored in the buffer of SumLen ints (a longer list panics), rand.Intn
\* draws below the last sum (it panics unless that is positive), and the
\* chosen word is appended and shifted into the prefix.
GenerateLoop ==
  /\ pc = "loop"
  /\ i < n
  /\ Lookup(Receiver.chain, String(p)) # <<>>
  /\ UNCHANGED <<driver, args, runs, disk, canCreate, outFile, inputFile, c,
                 loaded, on, n, io>>
  /\ LET found == Lookup(Receiver.chain, String(p))
         sum == CumSum(found)
     IN IF Len(found) > SumLen
        THEN /\ pc' = "panic" /\ status' = 2
             /\ report' = "Generate: sum: index out of range"
             /\ UNCHANGED <<p, words, i, draws, choices, random, count>>
        ELSE IF sum[Len(found)] <= 0
        THEN /\ pc' = "panic" /\ status' = 2
             /\ report' = "Generate: invalid argument to Intn"
             /\ UNCHANGED <<p, words, i, draws, choices, random, count>>
        ELSE /\ \E r \in 0..(sum[Len(found)] - 1) :
                  LET next == found[Pick(sum, r) + 1].word
                  IN /\ random' = r
                     /\ count' = Pick(sum, r)
                     /\ words' = Append(words, next)
                     /\ p' = Shift(p, next)
             /\ choices' = found
             /\ draws' = draws + 1
             /\ i' = i + 1
             /\ UNCHANGED <<pc, status, report>>

\* Generate leaves its loop, after n words or at a prefix without suffixes,
\* and returns the words; main prints them and returns.
GenerateReturn ==
  /\ pc = "loop"
  /\ (i >= n \/ Lookup(Receiver.chain, String(p)) = <<>>)
  /\ UNCHANGED <<driver, args, runs, disk, canCreate, outFile, inputFile, c,
                 loaded, gen, io, report>>
  /\ IF driver = "main"
     THEN pc' = "exit" /\ status' = 0
     ELSE pc' = "returned" /\ status' = status

Next ==
  \/ BuildChain
  \/ WriteFreTable
  \/ ReadFreTable
  \/ GenerateCall
  \/ GenerateLoop
  \/ GenerateReturn

Spec == InitLib /\ [][Next]_vars

NextMain ==
  \/ Main
  \/ Exec
  \/ BuildChain
  \/ WriteFreTable
  \/ ReadFreTable
  \/ GenerateCall
  \/ GenerateLoop
  \/ GenerateReturn

SpecMain == InitMain /\ [][NextMain]_vars

\* Build alone, over the input texts and the example text.
NextBuild == BuildChain

SpecBuild == InitBuild /\ [][NextBuild]_vars

\* ------------------------------------------------------- Build: C2 and C6
\* The prefixLen words before word j of a file, with empty strings before
\* the start of the file.
Window(toks, j, prefixLen) ==
  [k \in 1..prefixLen |->
     IF j - prefixLen + k - 1 >= 1 THEN toks[j - prefixLen + k - 1]
     ELSE EmptyString]

\* The places <<file, j>> of the words of the input files.
Places(s) == UNION {{<<f, j>> : j \in 1..Len(s[f])} : f \in 1..Len(s)}

\* How often the word follows the prefix with this key in the files.
Observed(s, prefixLen, key, word) ==
  Cardinality({pl \in Places(s) :
                 /\ String(Window(s[pl[1]], pl[2], prefixLen)) = key
                 /\ s[pl[1]][pl[2]] = word})

\* The keys and words seen in the files.
SeenKeys(s, prefixLen) ==
  {String(Window(s[pl[1]], pl[2], prefixLen)) : pl \in Places(s)}
SeenWords(s) == {s[pl[1]][pl[2]] : pl \in Places(s)}

RECURSIVE SumFreq(_)
SumFreq(suf) ==
  IF suf = <<>> THEN 0 ELSE Head(suf).frequency + SumFreq(Tail(suf))

\* The count stored for the word under the key: the frequencies of the
\* entries holding it (0 when there is none).
Count(chain, key, word) ==
  SumFreq(SelectSeq(Lookup(chain, key), LAMBDA e : e.word = word))

Built == driver = "lib" /\ pc = "write"

\* The suffix entries of a list, as a set.
Entries(suf) == {suf[x] : x \in 1..Len(suf)}

\* C2: after Build, the count stored for a word under a key (the frequency of
\* its one entry) is the number of
\* places of the input files where the word follows that prefix (the window
\* before the first words of a file padded with empty strings); so the counts
\* under a key add up to the number of times the prefix was followed by a
\* word, and only observed prefixes are keys.  For the example text with
\* prefix length 2: (am, a) -> {free: 1} and (I, am) -> {a: 1, not: 1}.
C2_FrequencyInvariant ==
  Built =>
    LET s == Slices
        keys == DOMAIN c.chain \cup SeenKeys(s, c.prefixLen)
        ws == SeenWords(s) \cup
              UNION {{c.chain[k][e].word : e \in 1..Len(c.chain[k])} :
                       k \in DOMAIN c.chain}
    IN /\ \A k \in keys : \A w \in ws :
            Count(c.chain, k, w) = Observed(s, c.prefixLen, k, w)
       /\ \A k \in keys :
            SumFreq(Lookup(c.chain, k)) =
              Cardinality({pl \in Places(s) :
                 String(Window(s[pl[1]], pl[2], c.prefixLen)) = k})
       /\ \A k \in DOMAIN c.chain : \A e \in 1..Len(c.chain[k]) :
            c.chain[k][e].frequency =
              Observed(s, c.prefixLen, k, c.chain[k][e].word)
       /\ DOMAIN c.chain = SeenKeys(s, c.prefixLen)
       /\ (s = <<ExampleText>> /\ c.prefixLen = 2) =>
            /\ Entries(Lookup(c.chain, String(<<<<"a", "m">>, <<"a">>>>)))
                 = {[word |-> <<"f", "r", "e", "e">>, frequency |-> 1]}
            /\ Entries(Lookup(c.chain, String(<<<<"I">>, <<"a", "m">>>>)))
                 = {[word |-> <<"a">>, frequency |-> 1],
                    [word |-> <<"n", "o", "t">>, frequency |-> 1]}

\* C2's case: the chain built from the example text with prefix length 2,
\* where (I, am) has two suffixes.
C2_Witness ==
  /\ Built
  /\ Slices = <<ExampleText>>
  /\ c.prefixLen = 2
  /\ Len(Lookup(c.chain, String(<<<<"I">>, <<"a", "m">>>>))) = 2

\* C6: Build over several files gives, for every key and word, the sum of
\* the counts of the chains built from each file alone; every recorded pair
\* lies within one file, and the first word of every non-empty file is
\* recorded under the prefix of empty strings alone.
C6_PerFileRestart ==
  Built =>
    LET s == Slices
        alone == [f \in 1..Len(s) |-> Build(NewChain(c.prefixLen), <<s[f]>>)]
        keys == DOMAIN c.chain \cup UNION {DOMAIN alone[f].chain : f \in 1..Len(s)}
        RECURSIVE Total(_, _, _)
        Total(f, k, w) ==
          IF f = 0 THEN 0 ELSE Count(alone[f].chain, k, w) + Total(f - 1, k, w)
    IN /\ \A k \in keys : \A w \in SeenWords(s) :
            Count(c.chain, k, w) = Total(Len(s), k, w)
       /\ DOMAIN c.chain = UNION {DOMAIN alone[f].chain : f \in 1..Len(s)}
       /\ \A k \in DOMAIN c.chain : \A e \in 1..Len(c.chain[k]) :
            \E pl \in Places(s) :
              /\ String(Window(s[pl[1]], pl[2], c.prefixLen)) = k
              /\ s[pl[1]][pl[2]] = c.chain[k][e].word
       /\ \A f \in 1..Len(s) :
            s[f] # <<>> =>
              Count(c.chain, String(MakePrefix(c.prefixLen)), s[f][1]) >= 1

\* C6's case: two non-empty files, where the last word of the first followed
\* by the first word of the second is no pair of either file.
C6_Witness ==
  /\ Built
  /\ Len(disk) = 2 /\ disk[1] # <<>> /\ disk[2] # <<>>
  /\ Count(c.chain, String(Shift(MakePrefix(c.prefixLen), disk[1][Len(disk[1])])),
           disk[2][1]) = 0
  /\ Count(c.chain, String(MakePrefix(c.prefixLen)), disk[2][1]) >= 1

\* ------------------------------------------- the model file: C1, C8, C10
\* The chain was built, written and read back by a caller of the package.
RoundTripped == driver = "lib" /\ pc = "call"

\* Some input file has a word.
SomeWord == \E f \in 1..Len(disk) : disk[f] # <<>>

\* A key with each empty word replaced by the two-character marker.
Marked(key) ==
  LET ws == Split(key)
  IN Join([k \in 1..Len(ws) |-> IF ws[k] = EmptyString THEN Marker ELSE ws[k]])

RECURSIVE Concat(_, _)
\* The suffix lists of the keys of an order, one after the other.
Concat(chain, order) ==
  IF order = <<>> THEN <<>> ELSE chain[Head(order)] \o Concat(chain, Tail(order))

\* C1 as stated: reading the written file back gives the same prefix length
\* and the identical mapping, the keys with empty-string placeholders
\* included.
C1_RoundTripIdentical ==
  RoundTripped => (loaded.prefixLen = c.prefixLen /\ loaded.chain = c.chain)

\* C1 as amended: reading the written file back gives the same prefix length
\* and the mapping with every empty-string placeholder of a key replaced by the
\* marker of two double quotes: the keys read are the marked keys of the
\* chain, and the list of a key read is the lists of the keys marked to it,
\* one after the other in some order; when no input word is the marker
\* itself, that is one key, read with the same words and counts in the same
\* order.
C1_RoundTripMarked ==
  RoundTripped =>
    /\ loaded.prefixLen = c.prefixLen
    /\ DOMAIN loaded.chain = {Marked(k) : k \in DOMAIN c.chain}
    /\ \A K \in DOMAIN loaded.chain :
         \E order \in Orders({k \in DOMAIN c.chain : Marked(k) = K}) :
           loaded.chain[K] = Concat(c.chain, order)
    /\ (Marker \notin SeenWords(disk)) =>
         \A k \in DOMAIN c.chain : loaded.chain[Marked(k)] = c.chain[k]

\* C1's case: a chain of several keys, one of them with two suffixes or a
\* merged count, built from words other than the marker, read back.
C1_Witness ==
  /\ RoundTripped
  /\ Marker \notin SeenWords(disk)
  /\ Cardinality(DOMAIN c.chain) >= 2
  /\ \E k \in DOMAIN c.chain :
       Len(c.chain[k]) >= 2 \/ c.chain[k][1].frequency >= 2
  /\ \E k \in DOMAIN c.chain : Marked(k) # k

\* Generate has returned to a caller of the package.
Returned(which) == driver = "lib" /\ pc = "returned" /\ on = which

\* C8 as stated: the key of Generate's initial prefix is the key under which
\* Build records the first word of a file, so Generate(n), n >= 1, called on
\* a chain built from a non-empty file emits a word.
C8_StartsAtBuildSentinel ==
  /\ (Built /\ SomeWord) =>
       /\ String(InitialPrefix(c.prefixLen)) = String(MakePrefix(c.prefixLen))
       /\ \A f \in 1..Len(disk) :
            disk[f] # <<>> =>
              Count(c.chain, String(InitialPrefix(c.prefixLen)), disk[f][1]) >= 1
  /\ (Returned("built") /\ SomeWord /\ n >= 1) => Len(words) >= 1

\* C8 as amended: Generate's initial prefix is prefixLen markers of two double
\* quotes; its key is the key under which ReadFreTable stores the line written
\* for Build's prefix of empty strings, so in a chain built from a non-empty
\* file, written and read back, it holds the first word of every non-empty
\* file, and every Generate(n), n >= 1, that returns from that chain has
\* emitted a word.
C8_StartsAtMarkedSentinel ==
  /\ (RoundTripped /\ SomeWord) =>
       /\ String(InitialPrefix(loaded.prefixLen)) = Marked(String(MakePrefix(c.prefixLen)))
       /\ String(InitialPrefix(loaded.prefixLen)) \in DOMAIN loaded.chain
       /\ \A f \in 1..Len(disk) :
            disk[f] # <<>> =>
              Count(loaded.chain, String(InitialPrefix(loaded.prefixLen)),
                    disk[f][1]) >= 1
  /\ (Returned("loaded") /\ SomeWord /\ n >= 1) => Len(words) >= 1

\* C8's case: Generate(n), n >= 1, has returned words from a chain that was
\* built from a non-empty file, written and read back.
C8_Witness == Returned("loaded") /\ SomeWord /\ n >= 1 /\ Len(words) >= 1

\* C10: after Build, WriteFreTable, ReadFreTable and Generate(n), every word
\* emitted follows, in some input file, the prefixLen words emitted before it
\* (empty strings before the first); so the first word emitted is the first
\* word of a file, and a word is emitted when n >= 1 and a file has a word.
C10_WalkSoundness ==
  /\ (driver = "lib" /\ on = "loaded" /\ pc \in {"loop", "returned"}) =>
       \A j \in 1..Len(words) :
         Observed(disk, loaded.prefixLen,
                  String(Window(words, j, loaded.prefixLen)), words[j]) >= 1
  /\ (Returned("loaded") /\ SomeWord /\ n >= 1) => Len(words) >= 1

\* The walk is sound for input texts without the marker word.
WalkSoundWithoutMarker ==
  (driver = "lib" /\ on = "loaded" /\ pc \in {"loop", "returned"}
     /\ Marker \notin SeenWords(disk)) =>
       \A j \in 1..Len(words) :
         Observed(disk, loaded.prefixLen,
                  String(Window(words, j, loaded.prefixLen)), words[j]) >= 1

\* ------------------------------------------ Generate on any chain or file
\* The fields of the lines of a model file: the marker, a word, and a count.
Fields == {Marker, <<"x">>, <<"1">>}

RECURSIVE LinesWith(_)
\* The lists of lines, of at least one field each, holding at most k fields
\* in all.
LinesWith(k) ==
  IF k = 0 THEN {<<>>}
  ELSE {<<>>} \cup
       UNION {{<<Join(first)>> \o rest : rest \in LinesWith(k - Len(first))} :
                first \in SeqsUpTo(Fields, k) \ {<<>>}}

\* The model files a user may hand to ReadFreTable: a first line that is a
\* prefix length, a negative number or no number, then lines of fields.
ModelFiles ==
  {<<first>> \o rest :
     first \in {Itoa(k) : k \in 1..MaxPrefixLen} \cup {<<"x">>, <<"-", "1">>},
     rest \in LinesWith(MaxFields)}

\* The k-th word of a suffix list made up here: w1, w2, ...
SufWord(k) == <<"w">> \o Itoa(k)

\* Chains of prefix length 1 that Build or ReadFreTable can produce, with one
\* key, the key Generate starts at: short suffix lists of every frequency up
\* to MaxFreq, also with the marker as first word (a cycle), and lists as
\* long as the buffer of Generate and one longer, of frequency 1.
Lists ==
  {[k \in 1..Len(fs) |->
      [word |-> IF k = 1 THEN first ELSE SufWord(k), frequency |-> fs[k]]] :
     fs \in SeqsUpTo(1..MaxFreq, MaxSuffixes) \ {<<>>},
     first \in {Marker, SufWord(1)}}
  \cup
  {[k \in 1..m |-> [word |-> SufWord(k), frequency |-> 1]] :
     m \in {SumLen, SumLen + 1}}

Chains ==
  {[chain |-> Store(EmptyMap, String(InitialPrefix(1)), l), prefixLen |-> 1] :
     l \in Lists}

\* A caller of the package about to read a model file, or holding a chain.
InitGen ==
  /\ driver = "lib"
  /\ args = NoArgs
  /\ runs = 1
  /\ disk = <<>>
  /\ canCreate = TRUE
  /\ inputFile = <<>>
  /\ c = NoChain
  /\ \/ /\ outFile \in {[exists |-> TRUE, lines |-> f] : f \in ModelFiles}
        /\ loaded = NoChain
        /\ pc = "read"
     \/ /\ outFile = NoFile
        /\ loaded \in Chains
        /\ pc = "call"
  /\ GenIdle
  /\ io = <<>>
  /\ report = ""
  /\ status = -1

NextGen ==
  \/ ReadFreTable
  \/ GenerateCall
  \/ GenerateLoop
  \/ GenerateReturn

SpecGen == InitGen /\ [][NextGen]_vars

\* ------------------------------------------------------ C3, C4, C5 and C9
RECURSIVE PrefixSums(_)
\* cum[i] = count[0] + ... + count[i] of a list of counts.
PrefixSums(fs) ==
  IF Len(fs) <= 1 THEN fs
  ELSE LET h == Len(fs) \div 2
           left == PrefixSums(SubSeq(fs, 1, h))
           right == PrefixSums(SubSeq(fs, h + 1, Len(fs)))
       IN left \o [k \in 1..Len(right) |-> right[k] + left[h]]

Freqs(suf) == [k \in 1..Len(suf) |-> suf[k].frequency]

\* The suffixes Generate finds for its prefix.
Found == Lookup(Receiver.chain, String(p))

\* C3: for a suffix list with counts of at least 1, the index Generate chose
\* for the number it drew is in range and is the first index i with
\* random < cum[i], and the word emitted is the word at that index; every
\* suffix i is chosen for exactly count[i] of the numbers that can be drawn.
C3_WeightedSelection ==
  /\ (draws >= 1 /\ \A k \in 1..Len(choices) : choices[k].frequency >= 1) =>
       LET cum == PrefixSums(Freqs(choices))
       IN /\ random \in 0..(cum[Len(choices)] - 1)
          /\ count \in 0..(Len(choices) - 1)
          /\ random < cum[count + 1]
          /\ \A k \in 1..count : ~(random < cum[k])
          /\ words[Len(words)] = choices[count + 1].word
  /\ (/\ pc = "loop" /\ i < n /\ Found # <<>> /\ Len(Found) <= SumLen
      /\ \A k \in 1..Len(Found) : Found[k].frequency >= 1) =>
       LET sum == CumSum(Found)
           chosen == {<<r, Pick(sum, r)>> : r \in 0..(sum[Len(Found)] - 1)}
       IN \A k \in 1..Len(Found) :
            Cardinality({x \in chosen : x[2] = k - 1}) = Found[k].frequency

\* C3's case: from the suffixes {w1: 3, w2: 1} the number 3 was drawn and the
\* second suffix chosen.
C3_Witness ==
  /\ draws >= 1
  /\ Freqs(choices) = <<3, 1>>
  /\ random = 3
  /\ count = 1
  /\ words[Len(words)] = choices[2].word

GeneratePanics ==
  {"Generate: makeslice: len out of range", "Generate: sum: index out of range",
   "Generate: invalid argument to Intn"}

\* C4: Generate(n) returns (it does not panic), with at most n words, with
\* fewer only at a prefix without suffixes, and with no word and no number
\* drawn when its first prefix has no suffixes.
C4_GenerateReturns ==
  /\ ~(pc = "panic" /\ report \in GeneratePanics)
  /\ (on # "" /\ pc \in {"loop", "returned", "exit"}) =>
       /\ Len(words) <= n
       /\ Len(words) = i
       /\ draws = Len(words)
  /\ (on # "" /\ pc \in {"returned", "exit"}) =>
       /\ (Len(words) < n => Found = <<>>)
       /\ (Lookup(Receiver.chain, String(InitialPrefix(Receiver.prefixLen))) = <<>>
             => (words = <<>> /\ draws = 0))

\* The invariants of a chain: counts of at least 1, no word twice under a
\* key, keys of prefixLen words.
ChainInvariants(ch) ==
  \A k \in DOMAIN ch.chain :
    /\ \A e \in 1..Len(ch.chain[k]) : ch.chain[k][e].frequency >= 1
    /\ \A e, f \in 1..Len(ch.chain[k]) :
         ch.chain[k][e].word = ch.chain[k][f].word => e = f
    /\ Len(Split(k)) = ch.prefixLen

\* C5: the invariants hold of every chain the program holds, filled by Build
\* or read by ReadFreTable from any model file.
C5_ModelInvariants == ChainInvariants(c) /\ ChainInvariants(loaded)

\* C9: the buffer of the cumulative sums is at least as long as the suffix
\* list of Generate's prefix, whatever its length, and Generate goes on.
C9_NoCapOnSuffixes ==
  /\ (pc = "loop" /\ i < n) => Len(Found) <= SumLen
  /\ ~(pc = "panic" /\ report = "Generate: sum: index out of range")

\* -------------------------------------------------------------- main: C7
\* The number argument of the command line is there and is no positive
\* integer: os.Args[2] of read, os.Args[3] of generate.
BadNumber ==
  /\ driver = "main"
  /\ \/ (args.cmd = "read" /\ args.argc >= 3)
     \/ (args.cmd = "generate" /\ args.argc >= 4)
  /\ ~(Atoi(args.num).ok /\ Atoi(args.num).val > 0)

\* C7: when the prefix length of read or the word count of generate is zero,
\* negative or no integer, the process ends with a message and without a
\* file operation: no input file opened, no model file created or read, no
\* chain made.  (With every argument of the command there, the message is
\* main's own; "read <n>" alone ends in the panic of os.Args[3].)
C7_RejectionPrecedesIO ==
  BadNumber =>
    /\ io = <<>>
    /\ c = NoChain /\ loaded = NoChain /\ on = ""
    /\ pc \in {"main", "exit", "panic"}
    /\ pc # "main" => report # ""
    /\ (pc # "main" /\ args.cmd = "read" /\ args.argc >= 4) =>
         (pc = "exit" /\ report = "Sorry: number of prefix should be positive.")
    /\ (pc # "main" /\ args.cmd = "generate" /\ args.argc = 4) =>
         (pc = "exit" /\ report = "Sorry: number of words should be positive.")

\* C7's case: a process given "generate <model> <n>" with a bad n has ended,
\* the model file of an earlier run untouched on disk.
C7_Witness ==
  /\ BadNumber
  /\ pc = "exit"
  /\ args.cmd = "generate" /\ args.argc = 4
  /\ outFile.exists
  /\ io = <<>>

====
